---- MODULE Spec2Model ----
(***************************************************************************)
(* FounderOS browser extension: the background service worker's queue      *)
(* poller (processQueue), the platform posters (postToTwitter,             *)
(* postToLinkedIn), the page-context scripts they inject (autoPostToX,     *)
(* autoPostToLinkedIn) and the confirmation / notification step.           *)
(*                                                                         *)
(* The backend, the browser's tab and scripting APIs, the page's DOM and   *)
(* the clock are the environment: their answers are drawn from small sets. *)
(***************************************************************************)
EXTENDS Integers, Sequences, FiniteSets, TLC

\* ---------------------------------------------------------------- bounds
\* Posts the backend holds for the user.
MaxPosts == 2
\* The clock runs 0..MaxTime; a scheduled_time is one of 1..MaxTime.
MaxTime == 1
\* Passes started in a behaviour (alarm firings plus PROCESS_NOW messages).
MaxStarts == 2

\* Clicks on 'Post All Now' and on 'Refresh Queue' in a popup session.
MaxClicks == 2
MaxRefreshes == 1

PostIds == 1..MaxPosts

\* A post without scheduled_time (the field is absent, null or empty).
NoSched == 0 - 1
SchedVals == {NoSched} \cup (1..MaxTime)

\* post.platform: the two automated platforms and one that is not.
Platforms == {"x", "linkedin", "discord"}
PosterPlatforms == {"x", "linkedin"}

\* The triggers of a pass; one pass per trigger can be in flight in the model.
Slots == {"alarm", "manual"}

\* ----------------------------------------------------------------- state
VARIABLES
  now,        \* the clock (new Date())
  db,         \* backend: post id -> [platform, sched]
  status,     \* backend: post id -> "pending" | "published"
  tabs,       \* browser: platform -> number of open tabs matching its URL pattern
  pc,         \* slot -> where that pass is
  batch,      \* slot -> the posts its fetch returned (ids, in the order returned)
  idx,        \* slot -> position of the for-of loop in batch
  gets,       \* slot -> GET requests the pass has issued
  fetched,    \* slot -> how the pass's GET ended
  log,        \* slot -> post id -> what the pass has done for that post
              \* (res: "true" when the injection succeeded, "false" when the
              \* script reported false or the injection threw)
  attempts,   \* post id -> how the latest poster invocation for it ended
  starts,     \* passes started so far
  fetchedAt,  \* slot -> the clock when the pass's GET returned its list
  reply,      \* the sendResponse calls made for the latest PROCESS_NOW message
  page,       \* the page-context script run on its own (PageSpec)
  content,    \* a content script handling POST_CONTENT (ContentSpec)
  popup,      \* the popup and the worker's message handlers (PopupSpec)
  mail,       \* the waitlist email function handling a request (MailSpec)
  form,       \* the waitlist form of the site (FormSpec)
  wait        \* a waitForElement call of a content script (WaitSpec)

vars == <<now, db, status, tabs, pc, batch, idx, gets, fetched, log,
          attempts, starts, fetchedAt, reply, page, content, popup, mail,
          form, wait>>

passVars == <<pc, batch, idx, gets, fetched, log, fetchedAt, reply>>

\* The parts of the extension that run outside the worker's passes.
sideVars == <<page, content, popup, mail, form, wait>>

\* log[s][p].skippedAt when the loop has not skipped p.
NotSkipped == 0 - 1

\* What one pass has done for one post; prior is how the latest earlier
\* invocation for the post had ended when this pass called the poster.
NoLog == [inv |-> 0, prior |-> "none", lookups |-> 0, injects |-> 0,
          res |-> "none", clicks |-> 0, confirms |-> 0, settled |-> 0,
          notifs |-> 0, skippedAt |-> NotSkipped]

\* ------------------------------------------------------- the page (DOM)
\* Selector lists, by position in the || chain of the source.
XInputSelectors == <<1, 2, 3>>
XButtonSelectors == <<1, 2>>
LinkedInInputSelectors == <<1, 2, 3>>
LinkedInButtonSelectors == <<1, 2, 3>>

ThrowPoints == {"none", "query", "focus", "insert", "click"}

\* What the page answers: whether the control that opens the composer is
\* found, which selectors match an element, whether the matched button is
\* disabled, and where (if anywhere) a DOM call throws when it is reached.
Doms == [opener : BOOLEAN, inputs : SUBSET (1..3), buttons : SUBSET (1..3),
         disabled : BOOLEAN, throwsAt : ThrowPoints]

\* The pages a pass meets: the input and the submit control are there or
\* not (under their first selector), and the control is disabled or not.
PassDoms == [opener : {FALSE}, inputs : {{}, {1}}, buttons : {{}, {1}},
             disabled : BOOLEAN, throwsAt : {"none"}]

\* Mutant: the last selector of the list that matches wins.
FirstMatchLast(sels, present) ==
  LET hits == {k \in 1..Len(sels) : sels[k] \in present}
  IN  IF hits = {} THEN 0
      ELSE sels[CHOOSE k \in hits : \A j \in hits : j <= k]

RECURSIVE FirstMatch(_, _)
\* a || b || c over document.querySelector: the first selector of the list
\* that matches, 0 (null) when none does.
FirstMatch(sels, present) ==
  IF sels = <<>> THEN 0
  ELSE IF Head(sels) \in present THEN Head(sels)
  ELSE FirstMatch(Tail(sels), present)

\* resolve(false): sel the input used (0: none), ins whether the text went
\* in, opened whether the composer's opener was clicked.
ScriptFalse(sel, ins, opened) ==
  [result |-> FALSE, clicks |-> 0, inserted |-> ins, inputSel |-> sel,
   buttonSel |-> 0, opened |-> opened]

\* Mutant: the disabled flag is not looked at.
ClickableIgnoringDisabled(btn, dom) == btn # 0

\* A button the script may click: found and not disabled.
Clickable(btn, dom) == btn # 0 /\ ~dom.disabled

\* The body shared by both injected scripts: find the input, type, find the
\* submit control, click it once.
AutoPost(inputSels, buttonSels, dom) ==
  LET box == FirstMatch(inputSels, dom.inputs)
      btn == FirstMatch(buttonSels, dom.buttons)
  IN  IF dom.throwsAt = "query" THEN ScriptFalse(0, FALSE, FALSE)
      ELSE IF box = 0 THEN ScriptFalse(0, FALSE, dom.opener)
      ELSE IF dom.throwsAt = "focus" THEN ScriptFalse(box, FALSE, dom.opener)
      ELSE IF dom.throwsAt = "insert" THEN ScriptFalse(box, FALSE, dom.opener)
      ELSE IF ~Clickable(btn, dom) THEN ScriptFalse(box, TRUE, dom.opener)
      ELSE IF dom.throwsAt = "click" THEN ScriptFalse(box, TRUE, dom.opener)
      ELSE [result |-> TRUE, clicks |-> 1, inserted |-> TRUE,
            inputSel |-> box, buttonSel |-> btn, opened |-> dom.opener]

\* Mutant: the script clicks the submit control a second time.
autoPostToXClicksTwice(dom) ==
  LET r == AutoPost(XInputSelectors, XButtonSelectors, dom)
  IN  [r EXCEPT !.clicks = 2 * @]

autoPostToX(dom) == AutoPost(XInputSelectors, XButtonSelectors, dom)

autoPostToLinkedIn(dom) ==
  AutoPost(LinkedInInputSelectors, LinkedInButtonSelectors, dom)

InjectedScript(platform, dom) ==
  IF platform = "x" THEN autoPostToX(dom) ELSE autoPostToLinkedIn(dom)

\* ------------------------------------------------------------- helpers
\* The ids of a set as a list, ascending.
RECURSIVE SetToSeq(_)
SetToSeq(S) ==
  IF S = {} THEN <<>>
  ELSE LET m == CHOOSE x \in S : \A y \in S : x <= y
       IN  <<m>> \o SetToSeq(S \ {m})

SeqRange(s) == {s[i] : i \in 1..Len(s)}

\* The backend's answer to GET /marketing/extension/pending/{user}.
PendingPosts == SetToSeq({p \in PostIds : status[p] = "pending"})

FetchOutcomes == {"ok", "http_error", "network_error", "bad_body", "no_posts"}

\* Mutant: no try/catch, so a failed request or an unparsable body throws.
fetchQueuedPostsNoCatch(outcome) ==
  [threw |-> outcome \in {"network_error", "bad_body"},
   posts |-> IF outcome = "ok" THEN PendingPosts ELSE <<>>]

\* fetchQueuedPosts: the list, or [] for a non-ok status ("http_error"), a
\* failed request ("network_error"), a body that is no JSON ("bad_body") or
\* holds no posts ("no_posts"); the try/catch lets nothing out.
fetchQueuedPosts(outcome) ==
  [threw |-> FALSE, posts |-> IF outcome = "ok" THEN PendingPosts ELSE <<>>]

\* Mutant: the schedule check is left out.
ScheduledForFutureNever(p, t) == FALSE

\* Mutant: >= where the source has >.
ScheduledForFutureOrNow(p, t) == db[p].sched # NoSched /\ db[p].sched >= t

\* Mutant: a post some pass has already clicked submit for is skipped too (a
\* local in-flight marker).
ScheduledForFutureOrInFlight(p, t) ==
  \/ db[p].sched # NoSched /\ db[p].sched > t
  \/ attempts[p] = "clicked"

\* Mutant: a post with a scheduled_time is skipped whatever the clock says.
ScheduledForFutureAlways(p, t) == db[p].sched # NoSched

\* if (post.scheduled_time) { if (scheduledDate > new Date()) continue; }
ScheduledForFuture(p, t) == db[p].sched # NoSched /\ db[p].sched > t

\* Mutant: the script's result is not looked at.
InjectionSucceededAlways(r) == TRUE

\* if (result && result[0] && result[0].result)
InjectionSucceeded(r) == r.result

\* Mutant: the id of the batch's first post is sent.
ConfirmTargetFirst(s) == batch[s][1]

\* The id markPostAsPublished is called with: post.id of the poster's post.
ConfirmTarget(s) == batch[s][idx[s]]

\* The post whose notification is raised.
NotifyTarget(s) == batch[s][idx[s]]

CurPost(s) == batch[s][idx[s]]

Resting == {"idle", "done", "rejected", "hung"}

NoLogs == [p \in PostIds |-> NoLog]

\* The posts the backend can hold.
PostKinds == [platform : Platforms, sched : SchedVals]

\* ---------------------------------------------------------------- Init
NoOut == ScriptFalse(0, FALSE, FALSE)

EmptyPage == [stage |-> "off", platform |-> "x",
              dom |-> [opener |-> FALSE, inputs |-> {}, buttons |-> {},
                       disabled |-> FALSE, throwsAt |-> "none"],
              out |-> NoOut]

\* No content script is running; the popup is closed.
NoContent == [stage |-> "off"]

NoPopup == [stage |-> "closed"]

\* No request is being handled, the form is not on screen, nothing waits.
NoMail == [stage |-> "off"]

NoForm == [stage |-> "off"]

NoWait == [stage |-> "off"]

Init ==
  /\ now = 0
  /\ db \in [PostIds -> PostKinds]
  /\ status = [p \in PostIds |-> "pending"]
  /\ tabs = [pl \in PosterPlatforms |-> 0]
  /\ pc = [s \in Slots |-> "idle"]
  /\ batch = [s \in Slots |-> <<>>]
  /\ idx = [s \in Slots |-> 1]
  /\ gets = [s \in Slots |-> 0]
  /\ fetched = [s \in Slots |-> "none"]
  /\ log = [s \in Slots |-> NoLogs]
  /\ attempts = [p \in PostIds |-> "none"]
  /\ starts = 0
  /\ fetchedAt = [s \in Slots |-> 0]
  /\ reply = <<>>
  /\ mail = NoMail
  /\ form = NoForm
  /\ wait = NoWait
  /\ page = EmptyPage
  /\ content = NoContent
  /\ popup = NoPopup

\* ------------------------------------------------------------- actions
\* Time passes (at any await, and between events).
Tick ==
  /\ now < MaxTime
  /\ now' = now + 1
  /\ UNCHANGED <<db, status, tabs, passVars, attempts, starts, sideVars>>

InPoster == {"query", "create", "warmup", "inject", "confirm"}

\* The PROCESS_NOW listener's promise chain on processQueue(): .then sends
\* {success: true}, .catch sends {success: false}; a promise that never
\* settles ("hung") runs neither.
ProcessNowResponses(c) ==
  IF c = "done" THEN <<TRUE>>
  ELSE IF c = "rejected" THEN <<FALSE>>
  ELSE <<>>

\* The pass s is over (returned, threw, or waits forever on a promise nobody
\* resolves): its locals are gone.
EndPass(s, c) ==
  /\ pc' = [pc EXCEPT ![s] = c]
  /\ idx' = [idx EXCEPT ![s] = 1]
  /\ log' = [log EXCEPT ![s] = NoLogs]
  /\ batch' = [batch EXCEPT ![s] = <<>>]
  /\ fetchedAt' = [fetchedAt EXCEPT ![s] = 0]
  /\ reply' = IF s = "manual" THEN reply \o ProcessNowResponses(c) ELSE reply

\* The pass s goes on over posts: it waits at c, at position i, with lg done
\* so far; or it is over.
Land(s, c, i, lg, posts) ==
  IF c \in Resting
  THEN EndPass(s, c)
  ELSE /\ pc' = [pc EXCEPT ![s] = c]
       /\ idx' = [idx EXCEPT ![s] = i]
       /\ log' = [log EXCEPT ![s] = lg]
       /\ batch' = [batch EXCEPT ![s] = posts]
       /\ fetchedAt' = [fetchedAt EXCEPT
                          ![s] = IF pc[s] = "fetching" THEN now ELSE @]
       /\ reply' = reply

Continue(s, c, i, lg) == Land(s, c, i, lg, batch[s])

\* for (const post of posts): the position after i.
NextIndex(i) == i + 1

\* Mutant: every platform is given a poster.
HasPosterAny(p) == TRUE

\* if (post.platform === 'x') ... else if (post.platform === 'linkedin') ...
HasPoster(p) == db[p].platform \in PosterPlatforms

\* Mutant: the list is walked from its end.
PostAtReversed(posts, i) == posts[Len(posts) + 1 - i]

\* for (const post of posts): the post of iteration i, in the list's order.
PostAt(posts, i) == posts[i]

RECURSIVE LoopFrom(_, _, _, _, _)
\* The for-of loop from position i, run to its next await (JavaScript runs
\* it in one turn): future posts are skipped, a post of x or linkedin has its
\* poster called (which reads post.content and queries the tabs), any other
\* post leads straight to the delay. contentOk: whether the content of the
\* post handed to the poster is a string.
LoopFrom(posts, i, lg, t, contentOk) ==
  IF i > Len(posts)
  THEN [pc |-> "done", idx |-> i, log |-> lg]
  ELSE LET p == PostAt(posts, i)
       IN  IF ScheduledForFuture(p, t)
           THEN LoopFrom(posts, NextIndex(i),
                         [lg EXCEPT ![p].skippedAt = t], t, contentOk)
           ELSE IF HasPoster(p)
           THEN IF ~contentOk
                THEN \* post.content.substring throws: processQueue rejects
                     [pc |-> "rejected", idx |-> i, log |-> lg]
                ELSE [pc |-> "query", idx |-> i,
                      log |-> [lg EXCEPT ![p].inv = @ + 1,
                                         ![p].prior = attempts[p],
                                         ![p].lookups = @ + 1]]
           ELSE [pc |-> "delay", idx |-> i, log |-> lg]

\* The 'check_queue' alarm fires, or a PROCESS_NOW message arrives:
\* processQueue() is called and issues its GET.
StartPass(s) ==
  /\ pc[s] \in Resting
  /\ starts < MaxStarts
  /\ starts' = starts + 1
  /\ pc' = [pc EXCEPT ![s] = "fetching"]
  /\ gets' = [gets EXCEPT ![s] = 1]
  /\ fetched' = [fetched EXCEPT ![s] = "none"]
  /\ reply' = IF s = "manual" THEN <<>> ELSE reply
  /\ UNCHANGED <<now, db, status, tabs, batch, idx, log, attempts, fetchedAt,
                 sideVars>>

\* The GET settles; processQueue returns at once on an empty list.
FetchReturn(s) ==
  /\ pc[s] = "fetching"
  /\ \E o \in FetchOutcomes, contentOk \in BOOLEAN :
       LET got == fetchQueuedPosts(o)
           posts == got.posts
       IN  /\ fetched' = [fetched EXCEPT ![s] = o]
           /\ IF got.threw
              THEN EndPass(s, "rejected")
              ELSE IF Len(posts) = 0
              THEN EndPass(s, "done")
              ELSE LET r == LoopFrom(posts, 1, NoLogs, now, contentOk)
                   IN  Land(s, r.pc, r.idx, r.log, posts)
  /\ UNCHANGED <<now, db, status, tabs, gets, attempts, starts, sideVars>>

\* Mutant: the query's answer is taken to be empty.
TabExistsNever(pl) == FALSE

\* tabs.length > 0: the query returned a tab of the platform.
TabExists(pl) == tabs[pl] > 0

\* chrome.tabs.query settles. A rejection escapes the async executor of
\* new Promise(...): resolve is never called and the pass waits forever.
TabQueryReturn(s) ==
  /\ pc[s] = "query"
  /\ LET p == CurPost(s)
     IN  \E rejects \in BOOLEAN :
           IF rejects
           THEN Continue(s, "hung", idx[s], log[s])
           ELSE IF TabExists(db[p].platform)
           THEN \* tabs[0].id is used: executeScript is issued
                Continue(s, "inject", idx[s],
                         [log[s] EXCEPT ![p].injects = @ + 1])
           ELSE \* no tab: chrome.tabs.create is issued
                Continue(s, "create", idx[s], log[s])
  /\ UNCHANGED <<now, db, status, tabs, gets, fetched, attempts, starts, sideVars>>

\* chrome.tabs.create settles; on success the 4000 ms warm-up starts.
TabCreateReturn(s) ==
  /\ pc[s] = "create"
  /\ LET pl == db[CurPost(s)].platform
     IN  \E rejects \in BOOLEAN :
           IF rejects
           THEN /\ Continue(s, "hung", idx[s], log[s])
                /\ tabs' = tabs
           ELSE /\ Continue(s, "warmup", idx[s], log[s])
                /\ tabs' = [tabs EXCEPT ![pl] = @ + 1]
  /\ UNCHANGED <<now, db, status, gets, fetched, attempts, starts, sideVars>>

\* The warm-up timer fires: executeScript is issued.
WarmupDone(s) ==
  /\ pc[s] = "warmup"
  /\ Continue(s, "inject", idx[s],
              [log[s] EXCEPT ![CurPost(s)].injects = @ + 1])
  /\ UNCHANGED <<now, db, status, tabs, gets, fetched, attempts, starts, sideVars>>

\* The poster's bookkeeping when the script's result is in: what the script
\* reported and clicked.
RecordResult(lg, r) ==
  [lg EXCEPT !.res = IF r.result THEN "true" ELSE "false",
             !.clicks = @ + r.clicks]

\* await markPostAsPublished(post.id): the POST is issued.
IssueConfirm(lg) == [lg EXCEPT !.confirms = @ + 1]

\* The POST has settled (either way), markPostAsPublished returns.
SettleConfirm(lg) == [lg EXCEPT !.settled = @ + 1]

\* Mutant: no notification is raised.
ShowNotificationDropped(lg) == lg

\* showNotification(...)
ShowNotification(lg) == [lg EXCEPT !.notifs = @ + 1]

\* What the poster does with the script's report r for post p: on success
\* the confirmation request goes out, otherwise resolve(false).
OnResult(s, p, r) ==
  LET lg1 == [log[s] EXCEPT ![p] = RecordResult(@, r)]
  IN  IF InjectionSucceeded(r)
      THEN Continue(s, "confirm", idx[s],
                    [lg1 EXCEPT ![ConfirmTarget(s)] = IssueConfirm(@)])
      ELSE Continue(s, "delay", idx[s], lg1)

\* chrome.scripting.executeScript settles: it throws, or the injected script
\* has run on the page and reported.
InjectReturn(s) ==
  /\ pc[s] = "inject"
  /\ LET p == CurPost(s)
     IN  \/ \* executeScript throws: catch, resolve(false)
            /\ Continue(s, "delay", idx[s], [log[s] EXCEPT ![p].res = "false"])
            /\ attempts' = [attempts EXCEPT ![p] = "failed"]
         \/ \E dom \in PassDoms :
              LET r == InjectedScript(db[p].platform, dom)
              IN  /\ OnResult(s, p, r)
                  /\ attempts' = [attempts EXCEPT ![p] =
                        IF r.clicks > 0 THEN "clicked" ELSE "failed"]
  /\ UNCHANGED <<now, db, status, tabs, gets, fetched, starts, sideVars>>

\* Mutant: no try/catch around the request, a failed request throws.
markPostAsPublishedNoCatch(recorded) == [threw |-> ~recorded]

\* markPostAsPublished once its POST has settled; recorded: the backend took
\* the confirmation. A rejected fetch is caught and logged, a non-ok status
\* is not looked at: nothing is thrown or returned either way.
markPostAsPublished(recorded) == [threw |-> FALSE]

\* The confirmation POST settles: the backend recorded it, or it failed.
\* Then the notification and resolve(true); had markPostAsPublished thrown,
\* the poster's catch would resolve(false).
ConfirmReturn(s) ==
  /\ pc[s] = "confirm"
  /\ \E recorded \in BOOLEAN :
       LET m == markPostAsPublished(recorded)
           lg1 == [log[s] EXCEPT ![ConfirmTarget(s)] = SettleConfirm(@)]
       IN  /\ status' = IF recorded
                        THEN [status EXCEPT ![ConfirmTarget(s)] = "published"]
                        ELSE status
           /\ IF m.threw
              THEN Continue(s, "delay", idx[s], lg1)
              ELSE Continue(s, "delay", idx[s],
                            [lg1 EXCEPT ![NotifyTarget(s)] = ShowNotification(@)])
  /\ UNCHANGED <<now, db, tabs, gets, fetched, attempts, starts, sideVars>>

\* The 3000 ms delay between posts is over: the loop goes on.
DelayDone(s) ==
  /\ pc[s] = "delay"
  /\ \E contentOk \in BOOLEAN :
       LET r == LoopFrom(batch[s], NextIndex(idx[s]), log[s], now, contentOk)
       IN  Continue(s, r.pc, r.idx, r.log)
  /\ UNCHANGED <<now, db, status, tabs, gets, fetched, attempts, starts, sideVars>>

Next ==
  \/ Tick
  \/ \E s \in Slots : StartPass(s)
  \/ \E s \in Slots : FetchReturn(s)
  \/ \E s \in Slots : TabQueryReturn(s)
  \/ \E s \in Slots : TabCreateReturn(s)
  \/ \E s \in Slots : WarmupDone(s)
  \/ \E s \in Slots : InjectReturn(s)
  \/ \E s \in Slots : ConfirmReturn(s)
  \/ \E s \in Slots : DelayDone(s)

Spec == Init /\ [][Next]_vars

\* --------------------------------------------------- passes one at a time
\* processQueue() is called only when no earlier call is still running (the
\* alarm period is longer than a pass, nobody clicks during a pass).
SeqStartPass(s) ==
  /\ \A s2 \in Slots : pc[s2] \in Resting
  /\ StartPass(s)

SeqNext ==
  \/ Tick
  \/ \E s \in Slots : SeqStartPass(s)
  \/ \E s \in Slots : FetchReturn(s)
  \/ \E s \in Slots : TabQueryReturn(s)
  \/ \E s \in Slots : TabCreateReturn(s)
  \/ \E s \in Slots : WarmupDone(s)
  \/ \E s \in Slots : InjectReturn(s)
  \/ \E s \in Slots : ConfirmReturn(s)
  \/ \E s \in Slots : DelayDone(s)

SeqSpec == Init /\ [][SeqNext]_vars

\* ------------------------------------------- the injected script alone
\* A tab of a platform shows some page; the script is injected into it once.
PageInit ==
  /\ now = 0
  /\ db = [p \in PostIds |-> [platform |-> "x", sched |-> NoSched]]
  /\ status = [p \in PostIds |-> "pending"]
  /\ tabs = [pl \in PosterPlatforms |-> 0]
  /\ pc = [s \in Slots |-> "idle"]
  /\ batch = [s \in Slots |-> <<>>]
  /\ idx = [s \in Slots |-> 1]
  /\ gets = [s \in Slots |-> 0]
  /\ fetched = [s \in Slots |-> "none"]
  /\ log = [s \in Slots |-> NoLogs]
  /\ attempts = [p \in PostIds |-> "none"]
  /\ starts = 0
  /\ fetchedAt = [s \in Slots |-> 0]
  /\ reply = <<>>
  /\ mail = NoMail
  /\ form = NoForm
  /\ wait = NoWait
  /\ content = NoContent
  /\ popup = NoPopup
  /\ page \in [stage : {"loaded"}, platform : PosterPlatforms, dom : Doms,
               out : {NoOut}]

\* autoPostToX / autoPostToLinkedIn runs in the page and resolves.
RunScript ==
  /\ page.stage = "loaded"
  /\ page' = [page EXCEPT !.stage = "ran",
                          !.out = InjectedScript(page.platform, page.dom)]
  /\ UNCHANGED <<now, db, status, tabs, passVars, attempts, starts, content,
                 popup, mail, form, wait>>

PageNext == RunScript

PageSpec == PageInit /\ [][PageNext]_vars

\* --------------------------------------------- the content scripts alone
\* Selector lists of the content scripts, by position in the || chain.
ContentXScheduleSelectors == <<1>>
ContentXSubmitSelectors == <<1>>
ContentLinkedInScheduleSelectors == <<1, 2>>
ContentLinkedInSubmitSelectors == <<1, 2>>

\* The message's post as the content script reads it: whether scheduled_time
\* is truthy, whether it parses as a date, whether content is a string.
ContentPosts == [sched : BOOLEAN, validDate : BOOLEAN, hasContent : BOOLEAN]

\* What the page answers a content script: atStart (x: the page is the
\* compose page; linkedin: the 'Start a post' trigger is there), unloads
\* (assigning window.location.href tears the script down before it goes on),
\* input (the textarea / editor turns up within the wait), which schedule and
\* submit selectors match, whether the schedule confirm control and the
\* date and time inputs are there, whether the submit control is disabled,
\* and whether a DOM call on the input throws.
ContentDoms == [atStart : BOOLEAN, unloads : BOOLEAN, input : BOOLEAN,
                schedule : SUBSET (1..2), confirm : BOOLEAN,
                submit : SUBSET (1..2), dateTime : BOOLEAN,
                disabled : BOOLEAN, throws : BOOLEAN]

\* sendResponse({success}) and the clicks made before it.
ContentReport(success, sched, conf, sub) ==
  [reported |-> TRUE, success |-> success, scheduleClicks |-> sched,
   confirmClicks |-> conf, submitClicks |-> sub]

\* The script is gone before it answers.
NoReport ==
  [reported |-> FALSE, success |-> FALSE, scheduleClicks |-> 0,
   confirmClicks |-> 0, submitClicks |-> 0]

\* postToX of content-x.js.
postToX(post, dom) ==
  LET scheduleBtn == FirstMatch(ContentXScheduleSelectors, dom.schedule)
      postBtn == FirstMatch(ContentXSubmitSelectors, dom.submit)
  IN  IF ~dom.atStart /\ dom.unloads THEN NoReport
      ELSE IF ~dom.input THEN ContentReport(FALSE, 0, 0, 0)
      ELSE IF dom.throws THEN ContentReport(FALSE, 0, 0, 0)
      ELSE IF post.sched
      THEN IF scheduleBtn = 0 THEN ContentReport(TRUE, 0, 0, 0)
           ELSE ContentReport(TRUE, 1, IF dom.confirm THEN 1 ELSE 0, 0)
      ELSE IF postBtn = 0 THEN ContentReport(TRUE, 0, 0, 0)
           ELSE ContentReport(TRUE, 0, 0, 1)

\* postToLinkedIn of the LinkedIn content script.
ContentPostToLinkedIn(post, dom) ==
  LET scheduleBtn == FirstMatch(ContentLinkedInScheduleSelectors, dom.schedule)
      postBtn == FirstMatch(ContentLinkedInSubmitSelectors, dom.submit)
  IN  IF ~dom.input THEN ContentReport(FALSE, 0, 0, 0)
      ELSE IF dom.throws THEN ContentReport(FALSE, 0, 0, 0)
      ELSE IF ~post.hasContent
      THEN \* post.content.replace throws
           ContentReport(FALSE, 0, 0, 0)
      ELSE IF post.sched
      THEN IF scheduleBtn = 0 THEN ContentReport(TRUE, 0, 0, 0)
           ELSE IF dom.dateTime /\ ~post.validDate
           THEN \* date.toISOString() throws on an invalid date
                ContentReport(FALSE, 1, 0, 0)
           ELSE ContentReport(TRUE, 1, IF dom.confirm THEN 1 ELSE 0, 0)
      ELSE IF postBtn = 0 THEN ContentReport(TRUE, 0, 0, 0)
           ELSE ContentReport(TRUE, 0, 0, 1)

\* A tab's content script has received a POST_CONTENT message.
ContentInit ==
  /\ now = 0
  /\ db = [p \in PostIds |-> [platform |-> "x", sched |-> NoSched]]
  /\ status = [p \in PostIds |-> "pending"]
  /\ tabs = [pl \in PosterPlatforms |-> 0]
  /\ pc = [s \in Slots |-> "idle"]
  /\ batch = [s \in Slots |-> <<>>]
  /\ idx = [s \in Slots |-> 1]
  /\ gets = [s \in Slots |-> 0]
  /\ fetched = [s \in Slots |-> "none"]
  /\ log = [s \in Slots |-> NoLogs]
  /\ attempts = [p \in PostIds |-> "none"]
  /\ starts = 0
  /\ fetchedAt = [s \in Slots |-> 0]
  /\ reply = <<>>
  /\ mail = NoMail
  /\ form = NoForm
  /\ wait = NoWait
  /\ page = EmptyPage
  /\ popup = NoPopup
  /\ content \in [stage : {"received"}, platform : PosterPlatforms,
                   post : ContentPosts, dom : ContentDoms, out : {NoReport}]

\* The listener runs the poster and answers with its result.
HandlePostContent ==
  /\ content.stage = "received"
  /\ content' = [content EXCEPT
        !.stage = "ran",
        !.out = IF content.platform = "x"
                THEN postToX(content.post, content.dom)
                ELSE ContentPostToLinkedIn(content.post, content.dom)]
  /\ UNCHANGED <<now, db, status, tabs, passVars, attempts, starts, page,
                 popup, mail, form, wait>>

ContentNext == HandlePostContent

ContentSpec == ContentInit /\ [][ContentNext]_vars

\* ------------------------------------ the popup and the message handlers
\* Mutant: count is the size of the whole queue, not of the list sent.
StatusResponseCountAll(posts) ==
  [sent |-> TRUE, posts |-> posts, count |-> MaxPosts, fetches |-> 1]

\* GET_STATUS: sendResponse({ posts, count: posts.length }) after the one
\* fetchQueuedPosts() call.
StatusResponse(posts) ==
  [sent |-> TRUE, posts |-> posts, count |-> Len(posts), fetches |-> 1]

NoStatusResponse == [sent |-> FALSE, posts |-> <<>>, count |-> 0, fetches |-> 0]

\* The popup is open and DOMContentLoaded has run: loadQueue() has sent its
\* GET_STATUS. The button's first state comes from the popup's HTML.
OpenPopups ==
  { [stage |-> "open", posts |-> <<>>, btnDisabled |-> b,
     statusReqs |-> 1, procReqs |-> 0, issued |-> 0, reads |-> <<>>,
     reloadTimers |-> 0, plainTimers |-> 0, postedToday |-> 0,
     clicks |-> 0, refreshes |-> 0,
     lastFetch |-> "none", lastResp |-> NoStatusResponse] : b \in BOOLEAN }

PopupInit ==
  /\ now = 0
  /\ db = [p \in PostIds |-> [platform |-> "x", sched |-> NoSched]]
  /\ status \in [PostIds -> {"pending", "published"}]
  /\ tabs = [pl \in PosterPlatforms |-> 0]
  /\ pc = [s \in Slots |-> "idle"]
  /\ batch = [s \in Slots |-> <<>>]
  /\ idx = [s \in Slots |-> 1]
  /\ gets = [s \in Slots |-> 0]
  /\ fetched = [s \in Slots |-> "none"]
  /\ log = [s \in Slots |-> NoLogs]
  /\ attempts = [p \in PostIds |-> "none"]
  /\ starts = 0
  /\ fetchedAt = [s \in Slots |-> 0]
  /\ reply = <<>>
  /\ mail = NoMail
  /\ form = NoForm
  /\ wait = NoWait
  /\ page = EmptyPage
  /\ content = NoContent
  /\ popup \in OpenPopups

popupFrame == <<now, db, tabs, passVars, attempts, starts, page, content,
                mail, form, wait>>

\* renderPosts: the button is disabled exactly when the list is empty.
renderPosts(pp) == [pp EXCEPT !.btnDisabled = (Len(pp.posts) = 0)]

\* A click on 'Refresh Queue': loadQueue() sends GET_STATUS.
ClickRefresh ==
  /\ popup.refreshes < MaxRefreshes
  /\ popup' = [popup EXCEPT !.refreshes = @ + 1, !.statusReqs = @ + 1]
  /\ UNCHANGED <<status, popupFrame>>

\* The worker handles a GET_STATUS message: fetchQueuedPosts(), then
\* sendResponse; the popup's callback stores the list and renders it.
GetStatus ==
  /\ popup.statusReqs > 0
  /\ \E o \in FetchOutcomes :
       LET got == fetchQueuedPosts(o)
           resp == IF got.threw THEN NoStatusResponse
                   ELSE StatusResponse(got.posts)
           pp == [popup EXCEPT !.statusReqs = @ - 1, !.lastFetch = o,
                               !.lastResp = resp]
       IN  popup' = IF resp.sent
                    THEN renderPosts([pp EXCEPT !.posts = resp.posts])
                    ELSE pp
  /\ UNCHANGED <<status, popupFrame>>

\* A click on 'Post All Now' while the button is enabled: postAllNow()
\* disables it and sends PROCESS_NOW.
ClickPostNow ==
  /\ ~popup.btnDisabled
  /\ popup.clicks < MaxClicks
  /\ popup' = [popup EXCEPT !.clicks = @ + 1, !.btnDisabled = TRUE,
                            !.procReqs = @ + 1]
  /\ UNCHANGED <<status, popupFrame>>

\* The pass a PROCESS_NOW message started is over (c: how), having had some
\* pending posts confirmed; the popup's callback runs on the response: on
\* success it issues storage.get and the timer that reloads the queue, else
\* the timer that only restores the button. A pass that hangs answers
\* nothing, the callback does not run.
ProcessNowReturn ==
  /\ popup.procReqs > 0
  /\ \E c \in {"done", "rejected", "hung"},
        pubs \in SUBSET {p \in PostIds : status[p] = "pending"} :
       LET r == ProcessNowResponses(c)
           pp == [popup EXCEPT !.procReqs = @ - 1]
       IN  /\ status' = [p \in PostIds |->
                           IF p \in pubs THEN "published" ELSE status[p]]
           /\ popup' = IF r = <<>> THEN pp
                        ELSE IF r[1]
                        THEN [pp EXCEPT !.issued = @ + 1, !.reloadTimers = @ + 1]
                        ELSE [pp EXCEPT !.plainTimers = @ + 1]
  /\ UNCHANGED popupFrame

\* chrome.storage.local serves a get: it reads postedToday.
StorageGet ==
  /\ popup.issued > 0
  /\ popup' = [popup EXCEPT !.issued = @ - 1,
                            !.reads = Append(@, popup.postedToday)]
  /\ UNCHANGED <<status, popupFrame>>

\* const count = (result.postedToday || 0) + posts.length
NewPostedCount(read, posts) == read + Len(posts)

\* The get's callback runs: it stores the value read plus posts.length.
StorageGetCallback ==
  /\ popup.reads # <<>>
  /\ popup' = [popup EXCEPT
        !.reads = Tail(@),
        !.postedToday = NewPostedCount(Head(popup.reads), popup.posts)]
  /\ UNCHANGED <<status, popupFrame>>

\* The 2000 ms timer of the success branch: button restored, loadQueue().
ReloadTimer ==
  /\ popup.reloadTimers > 0
  /\ popup' = [popup EXCEPT !.reloadTimers = @ - 1, !.btnDisabled = FALSE,
                            !.statusReqs = @ + 1]
  /\ UNCHANGED <<status, popupFrame>>

\* The 2000 ms timer of the error branch: button restored.
PlainTimer ==
  /\ popup.plainTimers > 0
  /\ popup' = [popup EXCEPT !.plainTimers = @ - 1, !.btnDisabled = FALSE]
  /\ UNCHANGED <<status, popupFrame>>

PopupNext ==
  \/ ClickRefresh
  \/ GetStatus
  \/ ClickPostNow
  \/ ProcessNowReturn
  \/ StorageGet
  \/ StorageGetCallback
  \/ ReloadTimer
  \/ PlainTimer

PopupSpec == PopupInit /\ [][PopupNext]_vars

\* ===================================================================
\* Properties
\* ===================================================================
\* The post's scheduled_time is after the clock's time.
IsFuture(p) == db[p].sched # NoSched /\ db[p].sched > now

\* The posts the loop of pass s has come to (the one it is at included).
Passed(s) == {batch[s][j] : j \in 1..(IF idx[s] <= Len(batch[s]) THEN idx[s]
                                      ELSE Len(batch[s]))}

\* Pass s is inside the poster of post p.
Posting(s, p) == pc[s] \in InPoster /\ idx[s] <= Len(batch[s]) /\ CurPost(s) = p

Untouched(l) ==
  /\ l.inv = 0 /\ l.prior = "none" /\ l.lookups = 0 /\ l.injects = 0 /\ l.res = "none"
  /\ l.clicks = 0 /\ l.confirms = 0 /\ l.settled = 0 /\ l.notifs = 0

Skipped(l) == l.skippedAt # NotSkipped

\* C1: a pass never invokes the poster for a post whose scheduled_time is in
\* the future: for such a post, and for every post the pass has skipped, there
\* is no poster call, tab lookup, injection, confirmation or notification in
\* that pass.
C1_FutureNotPosted ==
  \A s \in Slots, p \in PostIds :
    (IsFuture(p) \/ Skipped(log[s][p])) =>
      Untouched(log[s][p]) /\ ~Posting(s, p)

\* A pass has skipped a post that is still in the future and is inside the
\* poster of another post.
C1_Witness ==
  \E s \in Slots, p \in PostIds, q \in PostIds :
    Skipped(log[s][p]) /\ IsFuture(p) /\ Posting(s, q)

\* C2: when the injected script reports true for a post, the pass issues
\* the confirmation call once, with that post's id: in a pass, the calls
\* carrying a post's id number one if the script reported true for that post
\* and none otherwise.
C2_ConfirmOncePerSuccess ==
  \A s \in Slots, p \in PostIds :
    /\ log[s][p].res = "true" => log[s][p].confirms = 1
    /\ log[s][p].confirms > 0 => log[s][p].res = "true" /\ log[s][p].confirms = 1

\* The second post of a batch was reported true and its confirmation has
\* settled.
C2_Witness ==
  \E s \in Slots :
    /\ pc[s] = "delay" /\ idx[s] = 2 /\ Len(batch[s]) = 2
    /\ log[s][batch[s][2]].res = "true"
    /\ log[s][batch[s][2]].confirms = 1
    /\ log[s][batch[s][1]].confirms = 0

\* C3: when the poster reports false for a post (the script reported false, or
\* the injection threw), the pass issues no confirmation call for that post
\* and does not call the poster for it again; and a pass that comes to a post
\* an earlier invocation failed for calls the poster for it (unless the post
\* was still scheduled for the future when the pass came to it).
C3_FailureNoConfirmThenRetry ==
  \A s \in Slots, p \in PostIds :
    /\ log[s][p].res = "false" =>
         log[s][p].confirms = 0 /\ log[s][p].inv = 1
    /\ (p \in Passed(s) /\ attempts[p] = "failed") =>
         \/ log[s][p].inv = 1
         \/ Skipped(log[s][p]) /\ db[p].sched > log[s][p].skippedAt

\* A post whose poster failed in a pass that is over is in the poster again,
\* in a later pass.
C3_Witness ==
  \E s \in Slots, p \in PostIds :
    /\ Posting(s, p) /\ log[s][p].inv = 1 /\ log[s][p].prior = "failed"
    /\ \A u \in Slots \ {s} : pc[u] \in Resting

\* C4: for a post with no scheduled_time, a poster invocation clicks the
\* submit control at most once (once when the script reports true, never when
\* it does not), and a pass injects the script at most once for the post.
C4_OneSubmitPerInvocation ==
  \A s \in Slots, p \in PostIds :
    db[p].sched = NoSched =>
      /\ log[s][p].clicks <= 1
      /\ log[s][p].injects <= 1
      /\ log[s][p].clicks = (IF log[s][p].res = "true" THEN 1 ELSE 0)

\* A pass has clicked submit for a post with no scheduled_time.
C4_Witness ==
  \E s \in Slots, p \in PostIds :
    db[p].sched = NoSched /\ log[s][p].clicks = 1 /\ db[p].platform = "x"

\* C5: in a pass the poster is called at most once per post; a post is
\* skipped only while its scheduled_time is in the future, and then the pass
\* does nothing for it; a post of x or linkedin that a pass comes to and does
\* not skip has its poster called.
C5_OncePerPass ==
  \A s \in Slots, p \in PostIds :
    /\ log[s][p].inv <= 1
    /\ Skipped(log[s][p]) =>
         /\ db[p].sched # NoSched
         /\ db[p].sched > log[s][p].skippedAt
         /\ Untouched(log[s][p])
    /\ (p \in Passed(s) /\ ~Skipped(log[s][p])
          /\ db[p].platform \in PosterPlatforms) => log[s][p].inv = 1

\* A post with a scheduled_time that has elapsed is in its poster.
C5_Witness ==
  \E s \in Slots, p \in PostIds :
    Posting(s, p) /\ db[p].sched # NoSched /\ db[p].sched <= now

\* A pass is in progress.
InProgress(s) == pc[s] \notin Resting

\* C6: at most one pass is in progress at any time.
C6_OnePassAtATime == Cardinality({s \in Slots : InProgress(s)}) <= 1

\* C7: no in-flight marker keeps a pass from a post another pass has clicked
\* submit for: a pass that comes to such a post calls the poster for it
\* (unless the post was still scheduled for the future when the pass came to
\* it), so a second click for the post occurs while the first pass still
\* waits for its confirmation.
C7_InFlightPostDispatched ==
  \A s \in Slots, p \in PostIds :
    (p \in Passed(s) /\ attempts[p] = "clicked") =>
      \/ log[s][p].inv = 1
      \/ Skipped(log[s][p]) /\ db[p].sched > log[s][p].skippedAt

\* A pass fetched a post another pass had already clicked submit for (the
\* post heads its batch, so the poster was called in the turn of the fetch),
\* and has clicked submit for it too, while the other pass still waits for
\* its confirmation and the backend holds the post as pending.
C7_Witness ==
  \E s \in Slots, u \in Slots, p \in PostIds :
    /\ s # u
    /\ idx[s] = 1 /\ Len(batch[s]) >= 1 /\ batch[s][1] = p
    /\ log[s][p].prior = "clicked" /\ log[s][p].clicks = 1
    /\ pc[u] = "confirm" /\ CurPost(u) = p /\ log[u][p].clicks = 1
    /\ status[p] = "pending"

\* C8: a pass raises a notification for a post if and only if the script
\* reported true for it, at most once, and only once the confirmation call
\* for the post has been issued and has settled.
C8_NotifyIffSuccess ==
  \A s \in Slots, p \in PostIds :
    /\ log[s][p].notifs <= 1
    /\ log[s][p].notifs <= log[s][p].settled
    /\ log[s][p].settled <= log[s][p].confirms
    /\ log[s][p].notifs = 1 => log[s][p].res = "true"
    /\ (log[s][p].res = "true" /\ ~Posting(s, p)) => log[s][p].notifs = 1

\* A notification has been raised for a post whose confirmation settled.
C8_Witness ==
  \E s \in Slots, p \in PostIds :
    log[s][p].notifs = 1 /\ log[s][p].settled = 1 /\ pc[s] = "delay"

\* C9: fetchQueuedPosts never raises and returns the empty list for every
\* failure; a pass whose fetch returned the empty list ends with no poster
\* call, confirmation or notification; a pass issues one GET.
C9_FetchFailureIsEmpty ==
  \A s \in Slots :
    /\ pc[s] # "idle" => gets[s] = 1
    /\ fetched[s] \notin {"none", "ok"} =>
         /\ pc[s] = "done"
         /\ batch[s] = <<>>
         /\ \A p \in PostIds : Untouched(log[s][p])
    /\ InProgress(s) /\ pc[s] # "fetching" =>
         fetched[s] = "ok" /\ batch[s] # <<>>

\* A pass whose request failed is over, while the backend holds pending posts.
C9_Witness ==
  \E s \in Slots :
    /\ fetched[s] = "network_error" /\ pc[s] = "done"
    /\ \E p \in PostIds : status[p] = "pending"

ButtonSelectorsOf(platform) ==
  IF platform = "x" THEN {1, 2} ELSE {1, 2, 3}

\* C10: the injected script resolves true only if a submit control was found,
\* was not disabled and was clicked; it resolves false when no input matches,
\* when no submit control matches, when the control is disabled and when a
\* DOM call throws.
C10_ScriptResult ==
  page.stage = "ran" =>
    LET o == page.out
        d == page.dom
        sels == ButtonSelectorsOf(page.platform)
    IN  /\ o.result =>
              /\ o.buttonSel \in d.buttons \cap sels
              /\ ~d.disabled
              /\ o.clicks = 1
              /\ o.inputSel \in d.inputs
              /\ d.throwsAt = "none"
        /\ ~o.result => o.clicks = 0
        /\ (d.inputs = {} \/ d.buttons \cap sels = {} \/ d.disabled
              \/ d.throwsAt # "none") => ~o.result

\* The LinkedIn script has clicked a control found under its third selector.
C10_Witness ==
  /\ page.stage = "ran" /\ page.platform = "linkedin"
  /\ page.out.result /\ page.out.buttonSel = 3

\* C12: a confirmation call that fails is swallowed. Whenever a pass's
\* confirmation call settles, recorded by the backend or not, the poster has
\* resolved true, the notification is raised and the pass goes on to the
\* delay before its next post; nothing local records the submit; and a pass
\* that fetches while the post is still pending after a click gets the post
\* and calls its poster (unless it is still scheduled for the future).
C12_ConfirmFailureSwallowed ==
  [][
      /\ \A s \in Slots :
         (pc[s] = "confirm" /\ pc'[s] # "confirm") =>
           LET p == CurPost(s)
           IN  /\ pc'[s] = "delay"
               /\ idx'[s] = idx[s] /\ batch'[s] = batch[s]
               /\ log'[s][p].res = "true"
               /\ log'[s][p].notifs = log[s][p].notifs + 1
               /\ attempts' = attempts
      /\ \A s \in Slots, p \in PostIds :
           (/\ pc[s] = "fetching" /\ fetched'[s] = "ok" /\ pc'[s] \notin Resting
            /\ status[p] = "pending" /\ attempts[p] = "clicked") =>
             /\ p \in SeqRange(batch'[s])
             /\ p \in Passed(s)' =>
                  \/ log'[s][p].inv = 1
                  \/ Skipped(log'[s][p]) /\ db[p].sched > now
    ]_vars

\* A pass submitted a post an earlier invocation had already clicked submit
\* for; its own confirmation call has settled without the backend recording
\* it, the notification is up and the pass waits out the delay.
C12_Witness ==
  \E s \in Slots, p \in PostIds :
    /\ pc[s] = "delay" /\ CurPost(s) = p
    /\ log[s][p].prior = "clicked" /\ log[s][p].clicks = 1
    /\ log[s][p].settled = 1 /\ log[s][p].notifs = 1
    /\ status[p] = "pending"

\* The poster a pass called for a post has resolved: the script's result is
\* in and, when it was true, the confirmation call has settled and the
\* notification is up.
PosterComplete(l) ==
  /\ l.inv = 1 /\ l.res # "none"
  /\ l.res = "true" => l.settled = 1 /\ l.notifs = 1

\* Pass s holds a fetched list and is somewhere in its loop.
InLoop(s) == pc[s] \in InPoster \cup {"delay"}

\* In a pass's loop at position idx: every post after that position is
\* untouched, every post before it is finished with (skipped, without a
\* poster, or its poster complete), and only the post at that position can
\* have a poster in progress.
SequentialAt(s) ==
  InLoop(s) =>
    /\ idx[s] \in 1..Len(batch[s])
    /\ \A j \in 1..Len(batch[s]) :
         LET l == log[s][batch[s][j]]
         IN  /\ j > idx[s] => Untouched(l) /\ ~Skipped(l)
             /\ j < idx[s] => \/ Skipped(l)
                              \/ ~HasPoster(batch[s][j]) /\ Untouched(l)
                              \/ PosterComplete(l)
             /\ (l.inv > 0 /\ ~PosterComplete(l)) =>
                  j = idx[s] /\ pc[s] \in InPoster
             /\ (j = idx[s] /\ pc[s] = "delay" /\ l.inv > 0) => PosterComplete(l)

\* C13: a pass handles its posts one after the other in the order of the
\* fetched list: at most one of its posters is in progress, the posts before
\* it are finished with (poster and confirmation complete) and the posts after
\* it untouched; and a poster is called only in the turn in which the fetch
\* returned or the delay after the previous post elapsed.
C13_SequentialInOrder ==
  [][/\ \A s \in Slots : SequentialAt(s)'
     /\ \A s \in Slots, p \in PostIds :
          log'[s][p].inv > log[s][p].inv => pc[s] \in {"fetching", "delay"}
    ]_vars

\* A pass is in the poster of the second post of its list after the first
\* post's poster, confirmation included, completed.
C13_Witness ==
  \E s \in Slots :
    /\ Len(batch[s]) = 2 /\ idx[s] = 2 /\ pc[s] = "inject"
    /\ log[s][batch[s][1]].res = "true" /\ log[s][batch[s][1]].settled = 1
    /\ log[s][batch[s][2]].inv = 1

\* C14: a PROCESS_NOW message starts one pass and gets one response, sent
\* once the pass has finished, whose success tells whether the pass ran to
\* its end without throwing: never more than one response, none while the
\* pass runs, and a pass that is over (it returned, it threw, or it waits
\* forever) has been answered with true exactly when it returned.
C14_OneResponsePerMessage ==
  /\ Len(reply) <= 1
  /\ reply # <<>> => pc["manual"] \in {"done", "rejected"}
  /\ pc["manual"] \in {"done", "rejected", "hung"} =>
       /\ Len(reply) = 1
       /\ reply[1] = (pc["manual"] = "done")

\* C16: in a pass, a post that carries a scheduled_time is never published
\* through the immediate submit control.
C16_ScheduledNeverImmediateSubmit ==
  \A s \in Slots, p \in PostIds :
    db[p].sched # NoSched => log[s][p].clicks = 0

\* The posts of its list pass s has decided on: those up to its position.
Decided(s) == {batch[s][j] : j \in 1..idx[s]}

\* C18 as stated: a pass calls the poster for a post exactly when the post
\* has no scheduled_time or its scheduled_time had elapsed when the pass
\* fetched the queue.
C18_DueAsOfFetch ==
  \A s \in Slots :
    InLoop(s) =>
      \A p \in Decided(s) :
        HasPoster(p) =>
          (log[s][p].inv = 1 <=>
             (db[p].sched = NoSched \/ db[p].sched <= fetchedAt[s]))

\* C18, amended: a pass calls the poster for a post exactly when the post has
\* no scheduled_time or its scheduled_time has elapsed at the moment the
\* pass's loop comes to the post; a post still in the future at that moment is
\* skipped by that pass.
C18_DueAsOfLoopCheck ==
  [][\A s \in Slots, p \in PostIds :
       /\ log'[s][p].inv > log[s][p].inv =>
            db[p].sched = NoSched \/ db[p].sched <= now
       /\ (Skipped(log'[s][p]) /\ ~Skipped(log[s][p])) =>
            db[p].sched # NoSched /\ db[p].sched > now
       /\ (InLoop(s)' /\ p \in Decided(s)' /\ HasPoster(p)) =>
            (log'[s][p].inv = 1 <=> ~Skipped(log'[s][p]))
    ]_vars

\* A pass is in the poster of a post whose scheduled_time was still in the
\* future when the pass fetched the queue and has elapsed since.
C18_Witness ==
  \E s \in Slots, p \in PostIds :
    /\ Posting(s, p) /\ db[p].sched # NoSched
    /\ db[p].sched > fetchedAt[s] /\ db[p].sched <= now

\* C20: for a post of a platform other than x and linkedin no pass looks up
\* or creates a tab, injects, confirms or notifies; the post stays pending
\* and every pass that gets a list from the backend finds it there again.
C20_UnsupportedPlatformIgnored ==
  \A p \in PostIds :
    db[p].platform \notin {"x", "linkedin"} =>
      /\ status[p] = "pending" /\ attempts[p] = "none"
      /\ \A s \in Slots :
           /\ Untouched(log[s][p]) /\ ~Posting(s, p)
           /\ InLoop(s) => p \in SeqRange(batch[s])

\* A second pass has come to a due post of an unsupported platform and waits
\* out the delay after it, the other pass being over.
C20_Witness ==
  \E s \in Slots, p \in PostIds :
    /\ db[p].platform = "discord" /\ ~IsFuture(p)
    /\ starts = 2 /\ pc[s] = "delay" /\ CurPost(s) = p
    /\ \A u \in Slots \ {s} : pc[u] = "done"

\* A schedule control (x: schedule option or schedule confirm; linkedin: one
\* of the schedule buttons or the schedule confirm) or, for a post without
\* scheduled_time, a submit control is on the page.
ControlFound(c) ==
  IF c.post.sched
  THEN c.dom.schedule # {} /\ c.dom.confirm
  ELSE c.dom.submit \cap (IF c.platform = "x" THEN {1} ELSE {1, 2}) # {}

\* C11: a content-script poster reports success true only if it found and
\* clicked a submit or a schedule-confirm control, and reports false when
\* there is no such control on the page.
C11_ContentScriptResult ==
  (content.stage = "ran" /\ content.out.reported) =>
    /\ content.out.success =>
         content.out.submitClicks + content.out.confirmClicks >= 1
    /\ ~ControlFound(content) => ~content.out.success

\* C17: for a LinkedIn post that carries a scheduled_time the poster goes for
\* the schedule UI and leaves the immediate submit alone, and when the
\* schedule UI elements are not on the page its result is false.
C17_LinkedInScheduleMissingIsFalse ==
  (/\ content.stage = "ran" /\ content.platform = "linkedin"
   /\ content.post.sched) =>
    /\ content.out.submitClicks = 0
    /\ content.dom.schedule = {} => ~content.out.success

\* C15: handling a GET_STATUS message takes one queue fetch and answers with
\* the fetched posts and count equal to their number, the empty list and 0
\* when the fetch failed; it changes nothing of the backend, the tabs, the
\* passes or their confirmations and notifications.
C15_GetStatusOnlyReports ==
  [][popup'.statusReqs < popup.statusReqs =>
       LET r == popup'.lastResp
       IN  /\ r.sent /\ r.fetches = 1
           /\ r.count = Len(r.posts)
           /\ r.posts = (IF popup'.lastFetch = "ok" THEN PendingPosts ELSE <<>>)
           /\ popup'.posts = r.posts
           /\ UNCHANGED <<status, tabs, pc, log, attempts, gets>>
    ]_vars

\* A GET_STATUS message was answered with the empty list and count 0 after
\* its fetch failed, while the backend holds a pending post.
C15_Witness ==
  /\ popup.stage = "open" /\ popup.lastFetch = "network_error"
  /\ popup.lastResp.sent /\ popup.lastResp.count = 0
  /\ popup.lastResp.posts = <<>>
  /\ \E p \in PostIds : status[p] = "pending"

\* C19: postedToday changes only in the storage callback that follows a
\* PROCESS_NOW response reporting success, it then goes up by exactly the
\* length of the popup's list, and it never goes down.
C19_CounterAddsQueueLength ==
  [][/\ popup'.postedToday >= popup.postedToday
     /\ popup'.postedToday # popup.postedToday =>
          Len(popup'.reads) < Len(popup.reads)
     /\ Len(popup'.reads) < Len(popup.reads) =>
          popup'.postedToday = popup.postedToday + Len(popup.posts)
    ]_vars

\* C21: a poster always settles with a boolean: no pass is left waiting
\* forever on its poster, and no pass ends because its poster rejected.
C21_PosterAlwaysSettles ==
  \A s \in Slots : pc[s] \notin {"hung", "rejected"}

\* An operation pass s awaits settles.
AwaitSettles(s) ==
  \/ FetchReturn(s) \/ TabQueryReturn(s) \/ TabCreateReturn(s)
  \/ WarmupDone(s) \/ InjectReturn(s) \/ ConfirmReturn(s) \/ DelayDone(s)

\* C22: a started pass runs to its end: as long as it has not finished
\* (returned or threw), it awaits an operation whose settling lets it go on.
C22_PassNeverStuck ==
  \A s \in Slots :
    pc[s] \notin {"idle", "done", "rejected"} => ENABLED AwaitSettles(s)

\* The posts of its list pass s has yet to come to.
RemainingPosts(s) ==
  IF pc[s] = "fetching" THEN PendingPosts
  ELSE SubSeq(batch[s], idx[s] + 1, Len(batch[s]))

\* The positions of the due x and linkedin posts in a list.
DueWithPoster(posts) ==
  {j \in 1..Len(posts) :
     db[posts[j]].platform \in {"x", "linkedin"} /\ ~IsFuture(posts[j])}

\* C27: whatever happens to a post, the later due x and linkedin posts of the
\* list still get their poster called: a pass that stops in a poster leaves
\* no such post behind, and a pass that stops on a post its poster throws for
\* leaves none behind but that post.
C27_LaterPostsStillAttempted ==
  [][\A s \in Slots :
       /\ (pc[s] \notin Resting /\ pc'[s] = "hung") =>
            DueWithPoster(RemainingPosts(s)) = {}
       /\ (pc[s] \notin Resting /\ pc'[s] = "rejected") =>
            Cardinality(DueWithPoster(RemainingPosts(s))) <= 1
    ]_vars

\* C28: the popup has at most one PROCESS_NOW request outstanding, and while
\* one is outstanding the 'Post All Now' button is disabled.
C28_OneProcessNowOutstanding ==
  /\ popup.procReqs <= 1
  /\ popup.procReqs > 0 => popup.btnDisabled

\* ------------------------------------------------------------------ C26
InputSelectorsOf(platform) ==
  IF platform = "x" THEN XInputSelectors ELSE LinkedInInputSelectors

\* Positions in the input selector list whose selector matches an element.
InputHits(platform, dom) ==
  {k \in 1..Len(InputSelectorsOf(platform)) :
     InputSelectorsOf(platform)[k] \in dom.inputs}

\* C26: in the injected posters the fallback selectors are tried in their
\* listed order and the first match wins: the input used is the match of the
\* earliest selector that matches anything (a later selector only when all
\* earlier ones match nothing), and when none matches the script resolves
\* false without inserting text and without clicking the submit control.
C26_FirstSelectorWins ==
  page.stage = "ran" =>
    LET sels == InputSelectorsOf(page.platform)
        hits == InputHits(page.platform, page.dom)
    IN  /\ hits = {} =>
             /\ ~page.out.result
             /\ ~page.out.inserted
             /\ page.out.clicks = 0
             /\ page.out.inputSel = 0
        /\ (hits # {} /\ page.dom.throwsAt # "query") =>
             /\ page.out.inputSel \in page.dom.inputs
             /\ \E k \in hits :
                  /\ page.out.inputSel = sels[k]
                  /\ \A j \in 1..(k - 1) : sels[j] \notin page.dom.inputs

\* The first selector matches nothing, the second and third both match: the
\* second is used and the post goes out.
C26_Witness ==
  /\ page.stage = "ran"
  /\ page.dom.inputs = {2, 3}
  /\ page.out.inputSel = 2
  /\ page.out.result

\* ------------------------------------------------------------------ C23
\* The platform whose poster the pass s is in.
PosterPlatform(s) == db[CurPost(s)].platform

\* C23: the poster reuses an existing tab of the platform and creates one
\* only when the query returned none; after a creation the injection starts
\* only once the warm-up is over; when a tab exists none is created, so
\* passes that run one after the other create at most one tab per platform.
C23_TabReusedOrCreatedOnce ==
  [][
     /\ \A s \in Slots :
          /\ (pc[s] = "query" /\ pc'[s] = "create") =>
               tabs[PosterPlatform(s)] = 0
          /\ (pc[s] = "query" /\ pc'[s] = "inject") =>
               (tabs[PosterPlatform(s)] > 0 /\ tabs' = tabs)
          /\ (pc[s] # "create" /\ pc'[s] = "create") => pc[s] = "query"
          /\ (pc[s] # "warmup" /\ pc'[s] = "warmup") =>
               (pc[s] = "create" /\ tabs'[PosterPlatform(s)] = 1)
          /\ (pc[s] # "inject" /\ pc'[s] = "inject") =>
               pc[s] \in {"query", "warmup"}
     /\ \A pl \in PosterPlatforms :
          /\ tabs'[pl] # tabs[pl] =>
               \E s \in Slots : /\ pc[s] = "create"
                                /\ pc'[s] = "warmup"
                                /\ PosterPlatform(s) = pl
          /\ tabs'[pl] <= 1
    ]_vars

\* A second pass injects into the tab an earlier pass created for the post.
C23_Witness ==
  \E s \in Slots :
    /\ starts = 2
    /\ pc[s] = "inject"
    /\ tabs[PosterPlatform(s)] = 1
    /\ log[s][CurPost(s)].prior # "none"

\* ------------------------------------------- the waitlist email function
\* The worker of the extension takes no part in the specifications below.
WorkerAtRest ==
  /\ now = 0
  /\ db = [p \in PostIds |-> [platform |-> "x", sched |-> NoSched]]
  /\ status = [p \in PostIds |-> "pending"]
  /\ tabs = [pl \in PosterPlatforms |-> 0]
  /\ pc = [s \in Slots |-> "idle"]
  /\ batch = [s \in Slots |-> <<>>]
  /\ idx = [s \in Slots |-> 1]
  /\ gets = [s \in Slots |-> 0]
  /\ fetched = [s \in Slots |-> "none"]
  /\ log = [s \in Slots |-> NoLogs]
  /\ attempts = [p \in PostIds |-> "none"]
  /\ starts = 0
  /\ fetchedAt = [s \in Slots |-> 0]
  /\ reply = <<>>
  /\ page = EmptyPage
  /\ content = NoContent
  /\ popup = NoPopup

workerVars == <<now, db, status, tabs, passVars, attempts, starts, page,
                content, popup>>

MailMethods == {"OPTIONS", "POST", "PUT"}

Emails == {"a@x.io", "b@y.io", "c@z.io"}

\* record.email in a record that is an object: absent (undefined), null,
\* the empty string, or an address.
EmailValues == {"undefined", "null", ""} \cup Emails

\* Request bodies: not JSON; JSON whose record is absent or null; JSON whose
\* record is an object.
MailBodies ==
  {[kind |-> "unparsable", record |-> "none", email |-> "undefined"]}
  \cup {[kind |-> "json", record |-> r, email |-> "undefined"] :
          r \in {"undefined", "null"}}
  \cup {[kind |-> "json", record |-> "object", email |-> e] :
          e \in EmailValues}

\* How the request to the email API ends: fetch rejects, or it resolves
\* with a status and a body that is JSON or not.
MailSendOutcomes ==
  [rejects : {TRUE}, status : {0}, json : {FALSE}]
  \cup [rejects : {FALSE}, status : {200, 401, 422}, json : BOOLEAN]

NoSendOutcome == [rejects |-> FALSE, status |-> 0, json |-> FALSE]

\* Mutant: the email is not looked at.
EmailPresentAlways(e) == TRUE

\* !email is false: the value is truthy.
EmailPresent(e) == e \notin {"undefined", "null", ""}

\* return new Response(body, {status})
MailRespond(m, st, body) ==
  [m EXCEPT !.stage = "responded",
            !.responses = Append(@, [status |-> st, body |-> body])]

MailInit ==
  /\ WorkerAtRest
  /\ form = NoForm
  /\ wait = NoWait
  /\ mail \in [stage : {"received"}, method : MailMethods, body : MailBodies,
               sends : {<<>>}, outcome : {NoSendOutcome}, responses : {<<>>}]

\* The handler runs to its first await: OPTIONS is answered at once, any
\* other method reads the body.
MailHandle ==
  /\ mail.stage = "received"
  /\ mail' = IF mail.method = "OPTIONS"
             THEN MailRespond(mail, 200, "ok")
             ELSE [mail EXCEPT !.stage = "parsing"]
  /\ UNCHANGED <<workerVars, form, wait>>

\* req.json() settles: a rejection or a TypeError on record.email lands in
\* the catch; a falsy email is answered 400; otherwise the send request to
\* the email API goes out.
MailBodyRead ==
  /\ mail.stage = "parsing"
  /\ mail' = IF mail.body.kind = "unparsable"
             THEN MailRespond(mail, 500, "error")
             ELSE IF mail.body.record # "object"
             THEN MailRespond(mail, 500, "error")
             ELSE IF ~EmailPresent(mail.body.email)
             THEN MailRespond(mail, 400, "No email found")
             ELSE [mail EXCEPT !.stage = "sending",
                               !.sends = Append(@, mail.body.email)]
  /\ UNCHANGED <<workerVars, form, wait>>

\* fetch settles: a rejection lands in the catch, a response (of any
\* status) has its body read.
MailFetchReturn ==
  /\ mail.stage = "sending"
  /\ \E o \in MailSendOutcomes :
       mail' = IF o.rejects
               THEN MailRespond([mail EXCEPT !.outcome = o], 500, "error")
               ELSE [mail EXCEPT !.stage = "reading", !.outcome = o]
  /\ UNCHANGED <<workerVars, form, wait>>

\* res.json() settles: the data is passed on with status 200, a body that
\* is not JSON lands in the catch.
MailDataRead ==
  /\ mail.stage = "reading"
  /\ mail' = IF mail.outcome.json
             THEN MailRespond(mail, 200, "data")
             ELSE MailRespond(mail, 500, "error")
  /\ UNCHANGED <<workerVars, form, wait>>

MailNext == MailHandle \/ MailBodyRead \/ MailFetchReturn \/ MailDataRead

MailSpec == MailInit /\ [][MailNext]_vars

\* ------------------------------------------------------------------ C24
\* C24: the email function answers each request exactly once: OPTIONS gets
\* 'ok' and no outbound call; a record without an email gets 400 and no
\* outbound call; a record with an email causes exactly one send request, to
\* that email; an unparsable body, a missing record or a failed send request
\* gets 500.
C24_OneResponsePerRequest ==
  mail.stage # "off" =>
    LET responded == mail.stage = "responded"
        hasRecord == mail.body.kind = "json" /\ mail.body.record = "object"
        sendPhase == mail.stage \in {"sending", "reading"} \/ responded
    IN  /\ Len(mail.responses) = (IF responded THEN 1 ELSE 0)
        /\ ~responded => ENABLED MailNext
        /\ mail.method = "OPTIONS" =>
             /\ mail.sends = <<>>
             /\ responded => mail.responses[1] = [status |-> 200, body |-> "ok"]
        /\ (mail.method # "OPTIONS" /\ hasRecord
              /\ mail.body.email \notin Emails) =>
             /\ mail.sends = <<>>
             /\ responded => mail.responses[1].status = 400
        /\ (mail.method # "OPTIONS" /\ hasRecord /\ mail.body.email \in Emails) =>
             /\ mail.sends = (IF sendPhase THEN <<mail.body.email>> ELSE <<>>)
             /\ (responded /\ mail.outcome.rejects) =>
                  mail.responses[1].status = 500
        /\ (mail.method # "OPTIONS" /\ ~hasRecord) =>
             /\ mail.sends = <<>>
             /\ responded => mail.responses[1].status = 500

\* A request with an email whose send request was rejected: one send, 500.
C24_Witness ==
  /\ mail.stage = "responded"
  /\ mail.method = "POST"
  /\ mail.sends = <<"a@x.io">>
  /\ mail.outcome.rejects
  /\ mail.responses = <<[status |-> 500, body |-> "error"]>>

\* ---------------------------------------------------- the waitlist form
\* Submissions of the form in one behaviour.
MaxSubmits == 3

FormEmails == {"a@x.io", "b@y.io", "c@z.io"}

\* How the insert ends: no error, a unique violation, another database
\* error, or a rejected request.
InsertOutcomes == {"ok", "23505", "42501", "rejects"}

\* Mutant: no error code is taken for a unique violation.
IsUniqueViolationNever(code) == FALSE

\* dbError.code === '23505'
IsUniqueViolation(code) == code = "23505"

\* The component as mounted: the state of useState, the environment (whether
\* the backend URL is set), and what has gone out so far.
FormInit ==
  /\ WorkerAtRest
  /\ mail = NoMail
  /\ wait = NoWait
  /\ form \in [stage : {"idle"}, configured : BOOLEAN, email : {""},
               loading : {FALSE}, success : {FALSE}, alreadyJoined : {FALSE},
               submits : {0}, submitted : {<<>>}, inserts : {<<>>},
               outcome : {"none"}, alerts : {0}]

\* onChange of the input, while the form is shown.
TypeEmail ==
  /\ form.stage # "off"
  /\ ~form.success
  /\ \E e \in FormEmails :
       /\ e # form.email
       /\ form' = [form EXCEPT !.email = e]
  /\ UNCHANGED <<workerVars, mail, wait>>

\* handleSubmit up to its await: the form is shown, the input is filled in
\* (required) and the button is not disabled.
Submit ==
  /\ form.stage = "idle"
  /\ ~form.success
  /\ ~form.loading
  /\ form.email # ""
  /\ form.submits < MaxSubmits
  /\ form' = IF form.configured
             THEN [form EXCEPT !.stage = "inserting",
                               !.loading = TRUE,
                               !.outcome = "none",
                               !.submits = @ + 1,
                               !.submitted = Append(@, form.email),
                               !.inserts = Append(@, form.email)]
             ELSE [form EXCEPT !.stage = "timer",
                               !.loading = TRUE,
                               !.outcome = "none",
                               !.submits = @ + 1,
                               !.submitted = Append(@, form.email)]
  /\ UNCHANGED <<workerVars, mail, wait>>

\* The insert settles: the rest of the try, the catch and the finally.
InsertReturn ==
  /\ form.stage = "inserting"
  /\ \E o \in InsertOutcomes :
       form' = IF o = "ok"
               THEN [form EXCEPT !.stage = "idle", !.outcome = o,
                                 !.success = TRUE, !.loading = FALSE]
               ELSE IF o # "rejects" /\ IsUniqueViolation(o)
               THEN [form EXCEPT !.stage = "idle", !.outcome = o,
                                 !.alreadyJoined = TRUE, !.success = TRUE,
                                 !.loading = FALSE]
               ELSE [form EXCEPT !.stage = "idle", !.outcome = o,
                                 !.alerts = @ + 1, !.loading = FALSE]
  /\ UNCHANGED <<workerVars, mail, wait>>

\* The timer of the fallback (no backend configured) fires.
FallbackTimer ==
  /\ form.stage = "timer"
  /\ form' = [form EXCEPT !.stage = "idle", !.outcome = "simulated",
                          !.loading = FALSE, !.success = TRUE]
  /\ UNCHANGED <<workerVars, mail, wait>>

FormNext == TypeEmail \/ Submit \/ InsertReturn \/ FallbackTimer

FormSpec == FormInit /\ [][FormNext]_vars

\* ------------------------------------------------------------------ C25
\* C25: with the backend configured, each submission attempts exactly one
\* insert, of the email entered; a unique violation (23505) leads to success
\* with alreadyJoined, any other error leaves success false, and the loading
\* flag set at submit is cleared again whatever the outcome.
C25_OneInsertPerSubmit ==
  (form.stage # "off" /\ form.configured) =>
    /\ Len(form.inserts) = form.submits
    /\ form.inserts = form.submitted
    /\ form.stage = "inserting" => (form.loading /\ ENABLED InsertReturn)
    /\ form.stage = "idle" => ~form.loading
    /\ (form.stage = "idle" /\ form.outcome = "23505") =>
         (form.success /\ form.alreadyJoined)
    /\ (form.stage = "idle" /\ form.outcome \in {"42501", "rejects"}) =>
         (~form.success /\ ~form.alreadyJoined)
    /\ form.alreadyJoined => form.outcome = "23505"

\* A second submission, after a failed one and with another address, that
\* met a unique violation.
C25_Witness ==
  /\ form.configured
  /\ form.stage = "idle"
  /\ form.submits = 2
  /\ form.inserts = <<"a@x.io", "b@y.io">>
  /\ form.outcome = "23505"
  /\ form.success /\ form.alreadyJoined /\ ~form.loading
  /\ form.alerts = 1

\* ------------------------------------------------------- waitForElement
\* The longest timeout a call is given, in polling intervals (sleep(100)).
MaxTimeout == 4

\* The most intervals one sleep(100) takes on the clock (timers fire late).
MaxLate == 2

\* Mutant: the poll's answer is never taken for an element.
ElementFoundNever(present) == FALSE

\* if (element): document.querySelector returned an element.
ElementFound(present) == present

\* Mutant: the loop condition holds one interval longer.
WithinTimeoutInclusive(elapsed, timeout) == elapsed <= timeout

\* while (Date.now() - start < timeout)
WithinTimeout(elapsed, timeout) == elapsed < timeout

\* waitForElement(selector, timeout) has been called: start = Date.now().
\* elapsed is Date.now() - start; present whether the selector matches now;
\* polls the querySelector calls made, matched whether one of them ran while
\* the selector matched, lastPollAt the clock at the latest one.
WaitInit ==
  /\ WorkerAtRest
  /\ mail = NoMail
  /\ form = NoForm
  /\ wait \in [stage : {"checking"}, timeout : 1..MaxTimeout,
               present : BOOLEAN, elapsed : {0}, polls : {0},
               matched : {FALSE}, lastPollAt : {0}, result : {"none"}]

\* The loop condition and, inside the loop, the poll: return the element,
\* go to sleep, or leave the loop and return null.
WaitCheck ==
  /\ wait.stage = "checking"
  /\ wait' = IF WithinTimeout(wait.elapsed, wait.timeout)
             THEN LET polled == [wait EXCEPT !.polls = @ + 1,
                                             !.matched = @ \/ wait.present,
                                             !.lastPollAt = wait.elapsed]
                  IN  IF ElementFound(wait.present)
                      THEN [polled EXCEPT !.stage = "returned",
                                          !.result = "element"]
                      ELSE [polled EXCEPT !.stage = "sleeping"]
             ELSE [wait EXCEPT !.stage = "returned", !.result = "null"]
  /\ UNCHANGED <<workerVars, mail, form>>

\* The timer of sleep(100) fires, at least one interval later.
WaitSleepDone ==
  /\ wait.stage = "sleeping"
  /\ \E d \in 1..MaxLate :
       wait' = [wait EXCEPT !.stage = "checking", !.elapsed = @ + d]
  /\ UNCHANGED <<workerVars, mail, form>>

\* The page changes while the call is under way: the element appears or
\* goes away.
DomChange ==
  /\ wait.stage \in {"checking", "sleeping"}
  /\ wait' = [wait EXCEPT !.present = ~@]
  /\ UNCHANGED <<workerVars, mail, form>>

WaitNext == WaitCheck \/ WaitSleepDone \/ DomChange

\* The loop's own steps are taken when they can be: the script runs and its
\* timers fire.
WaitSpec ==
  /\ WaitInit
  /\ [][WaitNext]_vars
  /\ WF_vars(WaitCheck)
  /\ WF_vars(WaitSleepDone)

\* ------------------------------------------------------------------ C30
\* What a call may have done so far: the element is returned by the very
\* poll that found it, null is returned only with the timeout elapsed and no
\* poll having found the element, and no poll is made once the timeout has
\* elapsed.
WaitSafe ==
  /\ wait.stage # "returned" => (~wait.matched /\ wait.result = "none")
  /\ wait.polls > 0 => wait.lastPollAt < wait.timeout
  /\ wait.stage = "returned" =>
       /\ wait.result \in {"element", "null"}
       /\ wait.result = "element" <=> wait.matched
       /\ wait.result = "element" => wait.present
       /\ wait.result = "null" => wait.elapsed >= wait.timeout

\* C30: waitForElement always terminates; it returns the element as soon as
\* a poll finds the selector present, returns null once the timeout has
\* elapsed without a match, and never returns null after a poll that found
\* the element.
C30_WaitForElementTerminates ==
  /\ <>(wait.stage = "returned")
  /\ [](wait.stage # "off" => WaitSafe)

\* The element was missing at the first polls, appeared, and a later poll
\* within the timeout returned it.
C30_Witness ==
  /\ wait.stage = "returned"
  /\ wait.result = "element"
  /\ wait.polls = 3
  /\ wait.elapsed > 1
  /\ wait.elapsed < wait.timeout

\* ------------------------------------------- the worker when all goes well
\* The environment in which nothing fails: the queue endpoint answers with
\* the list, the posts are well formed, tabs are found or created, the
\* injected script reports true, the backend records every confirmation.
\* Passes start without limit (they are not counted here).

\* The alarm fires or PROCESS_NOW arrives: processQueue() issues its GET.
LiveStartPass(s) ==
  /\ pc[s] \in Resting
  /\ pc' = [pc EXCEPT ![s] = "fetching"]
  /\ gets' = [gets EXCEPT ![s] = 1]
  /\ fetched' = [fetched EXCEPT ![s] = "none"]
  /\ reply' = IF s = "manual" THEN <<>> ELSE reply
  /\ UNCHANGED <<now, db, status, tabs, batch, idx, log, attempts, starts,
                 fetchedAt, sideVars>>

\* The GET returns the pending posts, each with its content.
LiveFetchReturn(s) ==
  /\ FetchReturn(s)
  /\ fetched'[s] = "ok"
  /\ pc'[s] # "rejected"

LiveTabQueryReturn(s) == TabQueryReturn(s) /\ pc'[s] # "hung"

LiveTabCreateReturn(s) == TabCreateReturn(s) /\ pc'[s] # "hung"

\* The injected script reports true.
LiveInjectReturn(s) == InjectReturn(s) /\ pc'[s] = "confirm"

\* The backend records the confirmation it is sent.
LiveConfirmReturn(s) ==
  /\ ConfirmReturn(s)
  /\ status'[ConfirmTarget(s)] = "published"

LiveDelayDone(s) == DelayDone(s) /\ pc'[s] # "rejected"

\* The steps a pass takes once it has started: every awaited operation
\* settles.
LivePassStep(s) ==
  \/ LiveFetchReturn(s)
  \/ LiveTabQueryReturn(s)
  \/ LiveTabCreateReturn(s)
  \/ WarmupDone(s)
  \/ LiveInjectReturn(s)
  \/ LiveConfirmReturn(s)
  \/ LiveDelayDone(s)

LiveNext ==
  \/ Tick
  \/ \E s \in Slots : LiveStartPass(s)
  \/ \E s \in Slots : LiveFetchReturn(s)
  \/ \E s \in Slots : LiveTabQueryReturn(s)
  \/ \E s \in Slots : LiveTabCreateReturn(s)
  \/ \E s \in Slots : WarmupDone(s)
  \/ \E s \in Slots : LiveInjectReturn(s)
  \/ \E s \in Slots : LiveConfirmReturn(s)
  \/ \E s \in Slots : LiveDelayDone(s)

\* The periodic alarm goes on firing; the operations a pass awaits settle.
LiveSpec ==
  /\ Init
  /\ [][LiveNext]_vars
  /\ WF_vars(LiveStartPass("alarm"))
  /\ \A s \in Slots : WF_vars(LivePassStep(s))

\* ------------------------------------------------------------------ C29
\* A step as C29 allows it: a published post stays published; a pass whose
\* fetch returns after a post was confirmed does not get that post; a poster
\* is invoked only for a post of the pass's own list; that list changes only
\* when the pass ends.
NoRepostStep ==
  \A s \in Slots, p \in PostIds :
    /\ status[p] = "published" => status'[p] = "published"
    /\ (status[p] = "published" /\ pc[s] = "fetching") =>
         p \notin SeqRange(batch'[s])
    /\ log'[s][p].inv > log[s][p].inv => p \in SeqRange(batch'[s])
    /\ (pc[s] # "fetching" /\ batch'[s] # batch[s]) => batch'[s] = <<>>

\* C29: with the alarm firing fairly, the endpoint reachable, the poster
\* succeeding and the backend dropping confirmed posts from the list, every
\* due post of x or linkedin is eventually confirmed as published, and no
\* pass that fetches after that invokes the poster for it again.
C29_DuePostsEventuallyPublished ==
  /\ \A p \in PostIds :
       (HasPoster(p) /\ ~IsFuture(p)) ~> (status[p] = "published")
  /\ [][NoRepostStep]_vars

\* A post was confirmed by a pass that is over; a pass that fetched later is
\* posting another post, never having been handed the confirmed one.
C29_Witness ==
  \E s \in Slots, p \in PostIds :
    /\ HasPoster(p)
    /\ status[p] = "published"
    /\ pc[s] \in InPoster
    /\ p \notin SeqRange(batch[s])
    /\ log[s][p].inv = 0
    /\ \A s2 \in Slots \ {s} : pc[s2] \in {"idle", "done"}

====
